---------------------------- MODULE Spec2Model ----------------------------
(***************************************************************************)
(* Clarity API: the users and transactions tables (app/database.py), the   *)
(* repository and aggregation functions (app/crud.py) and the HTTP         *)
(* handlers with their authentication dependency (app/main.py).            *)
(*                                                                         *)
(* Conventions.                                                            *)
(*  - A nullable value (Optional[...] in Python, a NULL-able column) is a  *)
(*    sequence of length at most one: <<>> is None/NULL, <<v>> is v.       *)
(*  - A request body parsed by pydantic with exclude_unset semantics is a  *)
(*    record whose DOMAIN is the set of fields the caller supplied.        *)
(*  - Instants are whole days counted from 2023-12-01 (day 0).             *)
(*  - Amounts are integers (the float arithmetic is exact on them);        *)
(*    percentages are integers counting hundredths of a percent.           *)
(*  - An unhandled exception in a handler is the response status 500.      *)
(***************************************************************************)
EXTENDS Integers, Sequences, FiniteSets, TLC

VARIABLES
    users,      \* rows of table "users"
    txs,        \* rows of table "transactions"
    now,        \* the value datetime.utcnow() returns
    inflight,   \* signup requests between their email lookup and their insert
    resp        \* the request last answered, with its response

vars == <<users, txs, now, inflight, resp>>

-----------------------------------------------------------------------------
(* Bounds of the model *)

\* largest primary key the transactions table hands out
MaxTxId == 2
\* largest value of the query parameters skip and limit
MaxPage == 2
\* largest value of the query parameter months
MaxMonths == 2
\* number of signup requests that can be in flight together
MaxInflight == 2

-----------------------------------------------------------------------------
(* Optional values *)

None == <<>>
Some(v) == <<v>>
IsNone(o) == o = <<>>
Get(o) == o[1]

-----------------------------------------------------------------------------
(* Credentials (app/auth.py) *)

Emails == {"a@x.io", "b@x.io", "c@x.io"}

\* A bearer token: the identity it encodes, whether its signature verifies
\* and whether it has expired.
Tokens ==
    { [sub |-> "a@x.io", signed |-> TRUE,  expired |-> FALSE],
      [sub |-> "b@x.io", signed |-> TRUE,  expired |-> FALSE],
      [sub |-> "c@x.io", signed |-> TRUE,  expired |-> FALSE],
      [sub |-> "b@x.io", signed |-> FALSE, expired |-> FALSE],
      [sub |-> "a@x.io", signed |-> TRUE,  expired |-> TRUE] }

\* decode_token: the identity, or None on tampering or expiry
decode_token(token) ==
    IF token.signed /\ ~token.expired THEN Some(token.sub) ELSE None

\* get_password_hash: one-way; the salt is left out
get_password_hash(password) == <<"hash", password>>

-----------------------------------------------------------------------------
(* Users: crud.py *)

\* a faulty variant of get_user_by_email: the filter is on the wrong column
get_user_by_email_wrong_column(db_users, email) ==
    IF \E u \in db_users : u.full_name = email
    THEN Some(CHOOSE u \in db_users : u.full_name = email)
    ELSE None

\* db.query(User).filter(User.email == email).first()
get_user_by_email(db_users, email) ==
    IF \E u \in db_users : u.email = email
    THEN Some(CHOOSE u \in db_users : u.email = email)
    ELSE None

\* the rowid SQLite gives an inserted row: one more than the largest in use
NextRowId(rows) ==
    IF rows = {} THEN 1
    ELSE (CHOOSE i \in {r.id : r \in rows} : \A r \in rows : r.id <= i) + 1

\* the row create_user adds
NewUser(db_users, user, at) ==
    [id |-> NextRowId(db_users),
     email |-> user.email,
     hashed_password |-> get_password_hash(user.password),
     full_name |-> user.full_name,
     is_active |-> TRUE,
     created_at |-> at]

\* the unique index on users.email
EmailUnique(db_users) ==
    \A u, v \in db_users : u.email = v.email => u = v

\* UserResponse
UserResponse(u) ==
    [id |-> u.id, email |-> u.email, full_name |-> u.full_name,
     is_active |-> u.is_active, created_at |-> u.created_at]

-----------------------------------------------------------------------------
(* POST /auth/signup *)

SignupBodies ==
    { [email |-> "a@x.io", password |-> "pw1", full_name |-> "Ann"],
      [email |-> "a@x.io", password |-> "pw2", full_name |-> "Al"],
      [email |-> "b@x.io", password |-> "pw1", full_name |-> "Bob"] }

Slots == 1..MaxInflight

\* signup, up to its return from get_user_by_email: the 400, or on to create_user
signup_lookup(s, user) ==
    /\ IsNone(inflight[s])
    /\ LET db_user == get_user_by_email(users, user.email) IN
       IF ~IsNone(db_user)
       THEN /\ resp' = [op |-> "signup", user |-> user, status |-> 400,
                        body |-> [detail |-> "Email already registered"]]
            /\ UNCHANGED inflight
       ELSE /\ inflight' = [inflight EXCEPT ![s] = Some(user)]
            /\ UNCHANGED resp
    /\ UNCHANGED <<users, txs, now>>

\* signup, from create_user on: the insert commits, or the unique index on
\* users.email refuses it and the IntegrityError leaves the handler
signup_create(s) ==
    /\ ~IsNone(inflight[s])
    /\ LET user == Get(inflight[s])
           db_user == NewUser(users, user, now) IN
       IF EmailUnique(users \cup {db_user})
       THEN /\ users' = users \cup {db_user}
            /\ resp' = [op |-> "signup", user |-> user, status |-> 200,
                        body |-> [user |-> UserResponse(db_user)]]
       ELSE /\ resp' = [op |-> "signup", user |-> user, status |-> 500,
                        body |-> [detail |-> "Internal Server Error"]]
            /\ UNCHANGED users
    /\ inflight' = [inflight EXCEPT ![s] = None]
    /\ UNCHANGED <<txs, now>>

-----------------------------------------------------------------------------
(* Transactions: crud.py *)

\* the columns of table "transactions" declared nullable=False
NotNullColumns == {"amount", "category", "transaction_type"}

\* the row create_transaction adds: Transaction(**model_dump(), user_id=user_id)
NewTransaction(db, transaction, user_id, at) ==
    [id |-> NextRowId(db),
     amount |-> transaction.amount,
     category |-> transaction.category,
     description |-> transaction.description,
     transaction_type |-> transaction.transaction_type,
     date |-> Some(transaction.date),
     created_at |-> at,
     user_id |-> user_id]

\* Python's truth value of an Optional[str] argument
TruthyStr(o) == ~IsNone(o) /\ Get(o) /= ""

\* Python's truth value of an Optional[datetime] argument
TruthyDate(o) == ~IsNone(o)

\* Transaction.date >= d and Transaction.date <= d in SQL: not true of NULL
DateGE(t, d) == ~IsNone(t.date) /\ Get(t.date) >= d
DateLE(t, d) == ~IsNone(t.date) /\ Get(t.date) <= d

\* the rows the filters of get_transactions keep
FilteredTransactions(db, user_id, q) ==
    { t \in db :
        /\ t.user_id = user_id
        /\ TruthyStr(q.category) => t.category = Get(q.category)
        /\ TruthyStr(q.transaction_type) =>
               t.transaction_type = Get(q.transaction_type)
        /\ TruthyDate(q.start_date) => DateGE(t, Get(q.start_date))
        /\ TruthyDate(q.end_date) => DateLE(t, Get(q.end_date)) }

\* ORDER BY date DESC: SQLite puts NULL last; rows of equal date in any order
DateRank(t) == IF IsNone(t.date) THEN -1 ELSE Get(t.date)

OrderedByDateDesc(rows) ==
    { o \in [1..Cardinality(rows) -> rows] :
        /\ \A i, j \in DOMAIN o : i /= j => o[i] /= o[j]
        /\ \A i, j \in DOMAIN o : i < j => DateRank(o[i]) >= DateRank(o[j]) }

\* OFFSET skip LIMIT limit
Page(o, skip, limit) ==
    SubSeq(o, skip + 1, IF skip + limit < Len(o) THEN skip + limit ELSE Len(o))

\* the results get_transactions can return
get_transactions(db, user_id, q) ==
    { Page(o, q.skip, q.limit) :
        o \in OrderedByDateDesc(FilteredTransactions(db, user_id, q)) }

\* a faulty variant of get_transaction: the owner filter is missing
get_transaction_any_owner(db, transaction_id, user_id) ==
    IF \E t \in db : t.id = transaction_id
    THEN Some(CHOOSE t \in db : t.id = transaction_id)
    ELSE None

\* get_transaction: the row of that id and that owner, or None
get_transaction(db, transaction_id, user_id) ==
    IF \E t \in db : t.id = transaction_id /\ t.user_id = user_id
    THEN Some(CHOOSE t \in db : t.id = transaction_id /\ t.user_id = user_id)
    ELSE None

\* a faulty variant of the delete: the commit is missing
DeleteRow_uncommitted(db, t) == db

\* db.delete(db_transaction); db.commit()
DeleteRow(db, t) == db \ {t}

\* update_transaction's setattr loop over model_dump(exclude_unset=True)
SetAttrs(t, update_data) ==
    [f \in DOMAIN t |->
        IF f \in DOMAIN update_data
        THEN IF f \in {"description", "date"}
             THEN update_data[f]
             ELSE Get(update_data[f])
        ELSE t[f]]

\* db.commit() of the updated row raises IntegrityError: NULL in a NOT NULL column
ViolatesNotNull(update_data) ==
    \E f \in DOMAIN update_data \cap NotNullColumns : IsNone(update_data[f])

\* response_model=TransactionResponse: date is a required datetime
Serializable(t) == ~IsNone(t.date)

-----------------------------------------------------------------------------
(* Aggregation: crud.py *)

RECURSIVE SumAmount(_)
SumAmount(rows) ==
    IF rows = {} THEN 0
    ELSE LET t == CHOOSE x \in rows : TRUE IN t.amount + SumAmount(rows \ {t})

\* a faulty variant of get_dashboard_stats: only typed rows are counted
get_dashboard_stats_typed_count(db, user_id) ==
    LET transactions == { t \in db : t.user_id = user_id }
        total_income ==
            SumAmount({ t \in transactions : t.transaction_type = "income" })
        total_expenses ==
            SumAmount({ t \in transactions : t.transaction_type = "expense" })
    IN [total_income |-> total_income,
        total_expenses |-> total_expenses,
        balance |-> total_income - total_expenses,
        transaction_count |->
            Cardinality({ t \in transactions :
                            t.transaction_type \in {"income", "expense"} })]

get_dashboard_stats(db, user_id) ==
    LET transactions == { t \in db : t.user_id = user_id }
        total_income ==
            SumAmount({ t \in transactions : t.transaction_type = "income" })
        total_expenses ==
            SumAmount({ t \in transactions : t.transaction_type = "expense" })
    IN [total_income |-> total_income,
        total_expenses |-> total_expenses,
        balance |-> total_income - total_expenses,
        transaction_count |-> Cardinality(transactions)]

\* round(x, 2) of x = 100 * num / den, den > 0, in hundredths: to the nearest,
\* a tie to the even one
Round2(num, den) ==
    LET n == num * 10000
        q == n \div den
        r == n % den
    IN IF 2 * r > den THEN q + 1
       ELSE IF 2 * r < den THEN q
       ELSE IF q % 2 = 0 THEN q ELSE q + 1

\* a faulty variant of the percentage: cut off, not rounded
Percentage_truncated(r_total, total) ==
    IF total > 0 THEN (r_total * 10000) \div total ELSE 0

\* round((r.total / total * 100), 2) if total > 0 else 0
Percentage(r_total, total) ==
    IF total > 0 THEN Round2(r_total, total) ELSE 0

\* the grouped rows of get_category_breakdown, in no order
get_category_breakdown(db, user_id, transaction_type) ==
    LET rows == { t \in db : /\ t.user_id = user_id
                             /\ t.transaction_type = transaction_type }
        results == { [category |-> c,
                      total |-> SumAmount({ t \in rows : t.category = c })] :
                     c \in { t.category : t \in rows } }
        total == SumAmount(rows)
    IN { [category |-> r.category,
          total |-> r.total,
          percentage |-> Percentage(r.total, total)] : r \in results }

\* the calendar: the first day of each month, days counted from 2023-12-01
Months ==
    << [year |-> 2023, month |-> 12, first |-> 0],
       [year |-> 2024, month |-> 1,  first |-> 31],
       [year |-> 2024, month |-> 2,  first |-> 62],
       [year |-> 2024, month |-> 3,  first |-> 91] >>

\* t.date.strftime("%Y-%m"), as the pair <<year, month>>
month_key(d) ==
    LET i == CHOOSE k \in DOMAIN Months :
                 /\ Months[k].first <= d
                 /\ k < Len(Months) => d < Months[k + 1].first
    IN <<Months[i].year, Months[i].month>>

\* the order of the strings "YYYY-MM"
KeyLess(a, b) == a[1] < b[1] \/ (a[1] = b[1] /\ a[2] < b[2])

\* sorted(keys)
RECURSIVE SortedKeys(_)
SortedKeys(keys) ==
    IF keys = {} THEN <<>>
    ELSE LET m == CHOOSE k \in keys : \A o \in keys \ {k} : KeyLess(k, o)
         IN <<m>> \o SortedKeys(keys \ {m})

get_monthly_summary(db, user_id, months, at) ==
    LET end_date == at
        start_date == end_date - 30 * months
        transactions == { t \in db : /\ t.user_id = user_id
                                     /\ DateGE(t, start_date)
                                     /\ DateLE(t, end_date) }
        keys == { month_key(Get(t.date)) : t \in transactions }
        bucket(k) == { t \in transactions : month_key(Get(t.date)) = k }
        sorted == SortedKeys(keys)
    IN [i \in DOMAIN sorted |->
          [month |-> sorted[i],
           income |-> SumAmount({ t \in bucket(sorted[i]) :
                                    t.transaction_type = "income" }),
           expenses |-> SumAmount({ t \in bucket(sorted[i]) :
                                      t.transaction_type /= "income" })]]

\* GET /categories: the distinct labels of the caller's rows, the empty one dropped
get_categories_query(db, user_id) ==
    { c \in { t.category : t \in { x \in db : x.user_id = user_id } } : c /= "" }

-----------------------------------------------------------------------------
(* The authenticated handlers: main.py *)

\* a faulty variant of get_current_user: the token's claims are read unverified
get_current_user_unverified(db_users, token) ==
    get_user_by_email(db_users, token.sub)

\* get_current_user: the user the token resolves to, or None where it raises
\* the 401 credentials_exception
get_current_user(db_users, token) ==
    LET email == decode_token(token) IN
    IF IsNone(email) THEN None ELSE get_user_by_email(db_users, Get(email))

\* the answer to a request whose get_current_user dependency raised
Unauthorized(op, token) ==
    [op |-> op, token |-> token, status |-> 401,
     body |-> [detail |-> "Could not validate credentials"]]

\* the answer of a handler that ran for current_user; the body is a record
\* whose field names its kind
Answer(op, token, req, status, body) ==
    [op |-> op, token |-> token, req |-> req, status |-> status, body |-> body]

NoArgs == [none |-> TRUE]
NotFound == [detail |-> "Transaction not found"]
ServerError == [detail |-> "Internal Server Error"]

\* request bodies of POST /transactions (TransactionCreate)
TxBodies ==
    { [amount |-> 40, category |-> "food", description |-> Some("lunch"),
       transaction_type |-> "expense", date |-> 50],
      [amount |-> 100, category |-> "salary", description |-> None,
       transaction_type |-> "income", date |-> 45] }

\* request bodies of PUT /transactions/{id} (TransactionUpdate): the fields set
Patches ==
    { << >>,
      [amount |-> None],
      [category |-> Some(""), date |-> None] }

\* query strings of GET /transactions
ListQueries ==
    { [category |-> c, transaction_type |-> None, start_date |-> None,
       end_date |-> e, skip |-> skip, limit |-> MaxPage] :
      c \in {None, Some("")}, e \in {None, Some(45)}, skip \in {0, 1} }

TxIds == 1..MaxTxId

\* the instants the clock shows
Instants == {72, 78}

\* the bearer tokens of the two signed-up accounts
OwnerTokens == { token \in Tokens : ~IsNone(decode_token(token))
                                    /\ token.sub \in {"a@x.io", "b@x.io"} }

\* request bodies of POST /transactions for the dashboards
DashBodies ==
    { [amount |-> 100, category |-> "salary", description |-> None,
       transaction_type |-> "income", date |-> 35],
      [amount |-> 40, category |-> "food", description |-> None,
       transaction_type |-> "expense", date |-> 50],
      [amount |-> 20, category |-> "rent", description |-> None,
       transaction_type |-> "expense", date |-> 62],
      [amount |-> -40, category |-> "", description |-> None,
       transaction_type |-> "expense", date |-> 90] }

DashPatches == { [transaction_type |-> Some("transfer")] }

TypeParams == {"income", "expense", "transfer"}

\* GET /auth/me
read_users_me(token) ==
    LET current_user == get_current_user(users, token) IN
    /\ resp' = IF IsNone(current_user)
               THEN Unauthorized("me", token)
               ELSE Answer("me", token, NoArgs, 200,
                           [user |-> UserResponse(Get(current_user))])
    /\ UNCHANGED <<users, txs, now, inflight>>

\* POST /transactions
create_transaction(token, transaction) ==
    LET current_user == get_current_user(users, token)
        req == [transaction |-> transaction] IN
    IF IsNone(current_user)
    THEN /\ resp' = Unauthorized("create", token)
         /\ UNCHANGED <<users, txs, now, inflight>>
    ELSE LET db_transaction ==
                 NewTransaction(txs, transaction, Get(current_user).id, now) IN
         /\ db_transaction.id <= MaxTxId
         /\ txs' = txs \cup {db_transaction}
         /\ resp' = Answer("create", token, req, 200, [row |-> db_transaction])
         /\ UNCHANGED <<users, now, inflight>>

\* GET /transactions
read_transactions(token, q) ==
    LET current_user == get_current_user(users, token)
        req == [query |-> q] IN
    /\ IF IsNone(current_user)
       THEN resp' = Unauthorized("list", token)
       ELSE \E transactions \in get_transactions(txs, Get(current_user).id, q) :
              resp' =
                IF \A i \in DOMAIN transactions : Serializable(transactions[i])
                THEN Answer("list", token, req, 200, [items |-> transactions])
                ELSE Answer("list", token, req, 500, ServerError)
    /\ UNCHANGED <<users, txs, now, inflight>>

\* GET /transactions/{transaction_id}
read_transaction(token, transaction_id) ==
    LET current_user == get_current_user(users, token)
        req == [id |-> transaction_id] IN
    /\ IF IsNone(current_user)
       THEN resp' = Unauthorized("get", token)
       ELSE LET transaction ==
                    get_transaction(txs, transaction_id, Get(current_user).id) IN
            resp' =
              IF IsNone(transaction)
              THEN Answer("get", token, req, 404, NotFound)
              ELSE IF Serializable(Get(transaction))
              THEN Answer("get", token, req, 200, [row |-> Get(transaction)])
              ELSE Answer("get", token, req, 500, ServerError)
    /\ UNCHANGED <<users, txs, now, inflight>>

\* PUT /transactions/{transaction_id}
update_transaction(token, transaction_id, transaction) ==
    LET current_user == get_current_user(users, token)
        req == [id |-> transaction_id, patch |-> transaction] IN
    IF IsNone(current_user)
    THEN /\ resp' = Unauthorized("update", token)
         /\ UNCHANGED <<users, txs, now, inflight>>
    ELSE LET db_transaction ==
                 get_transaction(txs, transaction_id, Get(current_user).id) IN
         /\ IF IsNone(db_transaction)
            THEN /\ resp' = Answer("update", token, req, 404, NotFound)
                 /\ UNCHANGED txs
            ELSE IF ViolatesNotNull(transaction)
            THEN /\ resp' = Answer("update", token, req, 500, ServerError)
                 /\ UNCHANGED txs
            ELSE LET updated == SetAttrs(Get(db_transaction), transaction) IN
                 /\ txs' = (txs \ {Get(db_transaction)}) \cup {updated}
                 /\ resp' = IF Serializable(updated)
                            THEN Answer("update", token, req, 200,
                                        [row |-> updated])
                            ELSE Answer("update", token, req, 500, ServerError)
         /\ UNCHANGED <<users, now, inflight>>

\* DELETE /transactions/{transaction_id}
delete_transaction(token, transaction_id) ==
    LET current_user == get_current_user(users, token)
        req == [id |-> transaction_id] IN
    IF IsNone(current_user)
    THEN /\ resp' = Unauthorized("delete", token)
         /\ UNCHANGED <<users, txs, now, inflight>>
    ELSE LET db_transaction ==
                 get_transaction(txs, transaction_id, Get(current_user).id) IN
         /\ IF IsNone(db_transaction)
            THEN /\ resp' = Answer("delete", token, req, 404, NotFound)
                 /\ UNCHANGED txs
            ELSE /\ txs' = DeleteRow(txs, Get(db_transaction))
                 /\ resp' = Answer("delete", token, req, 200,
                                   [message |-> "Transaction deleted successfully"])
         /\ UNCHANGED <<users, now, inflight>>

\* GET /dashboard/stats
dashboard_stats(token) ==
    LET current_user == get_current_user(users, token) IN
    /\ resp' = IF IsNone(current_user)
               THEN Unauthorized("stats", token)
               ELSE Answer("stats", token, NoArgs, 200,
                           [stats |-> get_dashboard_stats(txs, Get(current_user).id)])
    /\ UNCHANGED <<users, txs, now, inflight>>

\* GET /dashboard/categories/{transaction_type}
category_breakdown(token, transaction_type) ==
    LET current_user == get_current_user(users, token)
        req == [transaction_type |-> transaction_type] IN
    /\ resp' = IF IsNone(current_user)
               THEN Unauthorized("breakdown", token)
               ELSE Answer("breakdown", token, req, 200,
                           [groups |-> get_category_breakdown(
                                txs, Get(current_user).id, transaction_type)])
    /\ UNCHANGED <<users, txs, now, inflight>>

\* GET /dashboard/monthly
monthly_summary(token, months) ==
    LET current_user == get_current_user(users, token)
        req == [months |-> months, at |-> now] IN
    /\ resp' = IF IsNone(current_user)
               THEN Unauthorized("monthly", token)
               ELSE Answer("monthly", token, req, 200,
                           [entries |-> get_monthly_summary(
                                txs, Get(current_user).id, months, now)])
    /\ UNCHANGED <<users, txs, now, inflight>>

\* GET /categories
get_categories(token) ==
    LET current_user == get_current_user(users, token) IN
    /\ resp' = IF IsNone(current_user)
               THEN Unauthorized("categories", token)
               ELSE Answer("categories", token, NoArgs, 200,
                           [categories |-> get_categories_query(
                                txs, Get(current_user).id)])
    /\ UNCHANGED <<users, txs, now, inflight>>

\* time passes
Tick ==
    /\ \E t \in Instants : t > now /\ now' = t
    /\ UNCHANGED <<users, txs, inflight, resp>>

-----------------------------------------------------------------------------
(* The account service on its own: an empty database and signup requests *)

NoResponse == [op |-> "none", status |-> 0]

Init ==
    /\ users = {}
    /\ txs = {}
    /\ now = 72
    /\ inflight = [s \in Slots |-> None]
    /\ resp = NoResponse

NextSignup ==
    \/ \E s \in Slots, user \in SignupBodies : signup_lookup(s, user)
    \/ \E s \in Slots : signup_create(s)
    \/ Tick

SpecSignup == Init /\ [][NextSignup]_vars

-----------------------------------------------------------------------------
(* The service with the accounts of a@x.io and b@x.io signed up *)

InitSignedUp ==
    /\ users = { [id |-> 1, email |-> "a@x.io",
                  hashed_password |-> get_password_hash("pw1"),
                  full_name |-> "Ann", is_active |-> TRUE, created_at |-> 72],
                 [id |-> 2, email |-> "b@x.io",
                  hashed_password |-> get_password_hash("pw1"),
                  full_name |-> "Bob", is_active |-> TRUE, created_at |-> 72] }
    /\ txs = {}
    /\ now = 72
    /\ inflight = [s \in Slots |-> None]
    /\ resp = NoResponse

Next ==
    \/ \E token \in Tokens : read_users_me(token)
    \/ \E token \in Tokens, transaction \in TxBodies :
           create_transaction(token, transaction)
    \/ \E token \in Tokens, q \in ListQueries : read_transactions(token, q)
    \/ \E token \in Tokens, id \in TxIds : read_transaction(token, id)
    \/ \E token \in Tokens, id \in TxIds, transaction \in Patches :
           update_transaction(token, id, transaction)
    \/ \E token \in Tokens, id \in TxIds : delete_transaction(token, id)
    \/ \E token \in Tokens : dashboard_stats(token)
    \/ \E token \in Tokens : category_breakdown(token, "expense")
    \/ \E token \in Tokens : monthly_summary(token, MaxMonths)
    \/ \E token \in Tokens : get_categories(token)

Spec == InitSignedUp /\ [][Next]_vars

-----------------------------------------------------------------------------
(* The dashboards over the transactions of the two accounts *)

NextDash ==
    \/ \E token \in OwnerTokens, transaction \in DashBodies :
           create_transaction(token, transaction)
    \/ \E token \in OwnerTokens, id \in TxIds, transaction \in DashPatches :
           update_transaction(token, id, transaction)
    \/ \E token \in OwnerTokens, id \in TxIds : delete_transaction(token, id)
    \/ \E token \in OwnerTokens : dashboard_stats(token)
    \/ \E token \in OwnerTokens, type \in TypeParams :
           category_breakdown(token, type)
    \/ \E token \in OwnerTokens, months \in 0..MaxMonths :
           monthly_summary(token, months)

SpecDash == InitSignedUp /\ [][NextDash]_vars

-----------------------------------------------------------------------------
(* The properties *)

\* the id of the account a bearer token stands for: its signature verifies, it
\* has not expired and its email is that of a stored user; None otherwise
Holder(token) ==
    IF token.signed /\ ~token.expired /\ \E u \in users : u.email = token.sub
    THEN Some((CHOOSE u \in users : u.email = token.sub).id)
    ELSE None

Owned(db, uid) == { t \in db : t.user_id = uid }

\* the sum of the amounts of rows, row by row in the order of their ids
RECURSIVE TotalUpTo(_, _)
TotalUpTo(rows, n) ==
    IF n = 0 THEN 0
    ELSE (IF \E t \in rows : t.id = n
          THEN (CHOOSE t \in rows : t.id = n).amount ELSE 0)
         + TotalUpTo(rows, n - 1)

Total(rows) == TotalUpTo(rows, MaxTxId)

Abs(x) == IF x < 0 THEN -x ELSE x

\* p hundredths of a percent is 100 * num / den to the nearest hundredth
IsRoundedShare(p, num, den) == 2 * Abs(p * den - 10000 * num) <= Abs(den)

RECURSIVE SumOf(_, _)
SumOf(f, S) ==
    IF S = {} THEN 0
    ELSE LET x == CHOOSE y \in S : TRUE IN f[x] + SumOf(f, S \ {x})

\* a handler ran for the caller in this step and answered
Ran == resp'.op /= "none" /\ resp'.status /= 401

(***************************************************************************)
(* C1.  Owner isolation.  In every step in which a handler runs for a      *)
(* caller A: a get, update or delete of an id whose row belongs to another *)
(* user answers 404 and leaves the table as it was; a list holds rows of A *)
(* only; the categories are labels of A's rows; stats, breakdown and       *)
(* monthly summary are what they are over A's rows alone; and no row of    *)
(* another user is changed or removed.                                     *)
(***************************************************************************)
C1_OwnerIsolation ==
    [][ Ran =>
          LET A == Get(Holder(resp'.token))
              mine == Owned(txs, A)
              foreign(id) == \E t \in txs : t.id = id /\ t.user_id /= A
          IN
          /\ (resp'.op \in {"get", "update", "delete"} /\ foreign(resp'.req.id))
                => resp'.status = 404 /\ resp'.body = NotFound /\ txs' = txs
          /\ (resp'.op = "list" /\ resp'.status = 200)
                => \A i \in DOMAIN resp'.body.items :
                       resp'.body.items[i] \in mine
          /\ resp'.op = "categories"
                => resp'.body.categories \subseteq { t.category : t \in mine }
          /\ resp'.op = "stats"
                => resp'.body.stats = get_dashboard_stats(mine, A)
          /\ resp'.op = "breakdown"
                => resp'.body.groups =
                       get_category_breakdown(mine, A, resp'.req.transaction_type)
          /\ resp'.op = "monthly"
                => resp'.body.entries =
                       get_monthly_summary(mine, A, resp'.req.months,
                                           resp'.req.at)
          /\ \A t \in txs : t.user_id /= A => t \in txs'
      ]_vars

\* A's update, with a patch that sets fields, of a row of B was answered 404
C1_Witness ==
    /\ resp.op = "update" /\ resp.status = 404
    /\ resp.req.patch /= << >>
    /\ ~IsNone(Holder(resp.token))
    /\ \E t \in txs : t.id = resp.req.id /\ t.user_id /= Get(Holder(resp.token))

(***************************************************************************)
(* C2.  Signup conflict.  A signup request that arrives when a user with   *)
(* its email is stored is answered 400 "Email already registered", stores  *)
(* nothing and goes no further; and no step changes or removes a stored    *)
(* user row.                                                               *)
(***************************************************************************)
C2_SignupConflict ==
    [][ /\ \A u \in users : u \in users'
        /\ \A s \in Slots, user \in SignupBodies :
             ((\E u \in users : u.email = user.email) /\ signup_lookup(s, user))
                => /\ resp'.op = "signup" /\ resp'.status = 400
                   /\ resp'.body = [detail |-> "Email already registered"]
                   /\ resp'.user = user
                   /\ users' = users
                   /\ inflight' = inflight
      ]_vars

\* a signup with the email of a stored user, and another password, was refused
C2_Witness ==
    /\ resp.op = "signup" /\ resp.status = 400
    /\ \E u \in users : /\ u.email = resp.user.email
                        /\ u.hashed_password /= get_password_hash(resp.user.password)
                        /\ u.full_name /= resp.user.full_name

(***************************************************************************)
(* C3.  Partial update as claimed: an update of an owned row with patch p  *)
(* stores, for every field p supplies, the value supplied, keeps every     *)
(* other field of the row and every other row, and with the empty patch    *)
(* answers 200 with the row as it was.                                     *)
(***************************************************************************)
C3_PartialUpdateMerge ==
    [][ (Ran /\ resp'.op = "update") =>
          LET A == Get(Holder(resp'.token))
              p == resp'.req.patch
              stored(r, f) == IF f \in {"description", "date"}
                              THEN r[f] ELSE Some(r[f])
          IN \A t \in txs :
               (t.id = resp'.req.id /\ t.user_id = A) =>
                 /\ \E r \in txs' :
                      /\ txs' = (txs \ {t}) \cup {r}
                      /\ \A f \in DOMAIN t :
                           IF f \in DOMAIN p THEN stored(r, f) = p[f]
                                             ELSE r[f] = t[f]
                 /\ p = << >> => /\ resp'.status = 200
                                 /\ resp'.body = [row |-> t]
      ]_vars

(***************************************************************************)
(* C4.  dashboard_stats: total_income is the sum of the amounts of the     *)
(* caller's rows of type income, total_expenses that of the rows of type   *)
(* expense, balance their difference and transaction_count the number of   *)
(* all the caller's rows, of whatever type.                                *)
(***************************************************************************)
C4_DashboardStats ==
    (resp.op = "stats" /\ resp.status = 200) =>
        LET mine == Owned(txs, Get(Holder(resp.token)))
            income == Total({ t \in mine : t.transaction_type = "income" })
            expenses == Total({ t \in mine : t.transaction_type = "expense" })
        IN resp.body.stats = [total_income |-> income,
                              total_expenses |-> expenses,
                              balance |-> income - expenses,
                              transaction_count |-> Cardinality(mine)]

\* stats over two rows of the caller, one of them neither income nor expense
C4_Witness ==
    /\ resp.op = "stats" /\ resp.status = 200
    /\ resp.body.stats.transaction_count = 2
    /\ resp.body.stats.total_expenses /= 0
    /\ \E t \in Owned(txs, Get(Holder(resp.token))) :
           t.transaction_type = "transfer"

\* what C5 and its amendment share: one group per distinct category of the
\* caller's rows of the type, each with the sum of its rows
BreakdownGroups(share_ok(_, _, _)) ==
    (resp.op = "breakdown" /\ resp.status = 200) =>
        LET rows == { t \in Owned(txs, Get(Holder(resp.token))) :
                        t.transaction_type = resp.req.transaction_type }
            groups == resp.body.groups
            grand == Total(rows)
        IN /\ { g.category : g \in groups } = { t.category : t \in rows }
           /\ Cardinality(groups) = Cardinality({ t.category : t \in rows })
           /\ \A g \in groups :
                /\ g.total = Total({ t \in rows : t.category = g.category })
                /\ share_ok(g.percentage, g.total, grand)
           /\ grand > 0 =>
                2 * Abs(SumOf([g \in groups |-> g.percentage], groups) - 10000)
                   <= Cardinality(groups)

ShareAsClaimed(p, total, grand) ==
    IF grand /= 0 THEN IsRoundedShare(p, total, grand) ELSE p = 0

ShareAmended(p, total, grand) ==
    IF grand > 0 THEN IsRoundedShare(p, total, grand) ELSE p = 0

(***************************************************************************)
(* C5, as claimed.  category_breakdown: one group per distinct category,   *)
(* its total the sum of its rows, its percentage 100 * total / grand_total *)
(* to two decimals whenever grand_total is not 0, and 0 when it is 0.      *)
(***************************************************************************)
C5_BreakdownAsClaimed == BreakdownGroups(ShareAsClaimed)

(***************************************************************************)
(* C5, amended.  The percentage is 100 * total / grand_total to two        *)
(* decimals whenever grand_total > 0, and 0 for every group whenever       *)
(* grand_total <= 0; the percentages sum to 100 within the rounding when   *)
(* grand_total > 0.                                                        *)
(***************************************************************************)
C5_Breakdown == BreakdownGroups(ShareAmended)

\* a breakdown of two groups whose grand total is negative
C5_Witness ==
    /\ resp.op = "breakdown" /\ resp.status = 200
    /\ Cardinality(resp.body.groups) = 2
    /\ SumOf([g \in resp.body.groups |-> g.total], resp.body.groups) < 0

(***************************************************************************)
(* C6.  Monthly summary as claimed: one entry per year-month in which the  *)
(* caller has a row dated in [now - 30 * months, now], in strictly         *)
(* ascending order of the month, its income the sum of the in-window rows  *)
(* of the month of type income and its expenses the sum of those of type   *)
(* expense.                                                                *)
(***************************************************************************)
C6_MonthlySummary ==
    (resp.op = "monthly" /\ resp.status = 200) =>
        LET at == resp.req.at
            window == { t \in Owned(txs, Get(Holder(resp.token))) :
                          /\ ~IsNone(t.date)
                          /\ at - 30 * resp.req.months <= Get(t.date)
                          /\ Get(t.date) <= at }
            entries == resp.body.entries
            of(k, type) == { t \in window : /\ month_key(Get(t.date)) = k
                                            /\ t.transaction_type = type }
        IN /\ { entries[i].month : i \in DOMAIN entries }
                 = { month_key(Get(t.date)) : t \in window }
           /\ \A i, j \in DOMAIN entries :
                i < j => KeyLess(entries[i].month, entries[j].month)
           /\ \A i \in DOMAIN entries :
                /\ entries[i].income = Total(of(entries[i].month, "income"))
                /\ entries[i].expenses = Total(of(entries[i].month, "expense"))

(***************************************************************************)
(* C7.  List as claimed: the rows returned are the caller's rows that      *)
(* match every filter the request supplies, by date descending, the first  *)
(* skip of them dropped and at most limit of them returned.                *)
(***************************************************************************)
C7_ListFilters ==
    (resp.op = "list" /\ resp.status = 200) =>
        LET q == resp.req.query
            items == resp.body.items
            matching ==
              { t \in Owned(txs, Get(Holder(resp.token))) :
                  /\ ~IsNone(q.category) => t.category = Get(q.category)
                  /\ ~IsNone(q.transaction_type) =>
                         t.transaction_type = Get(q.transaction_type)
                  /\ ~IsNone(q.start_date) =>
                         (~IsNone(t.date) /\ Get(t.date) >= Get(q.start_date))
                  /\ ~IsNone(q.end_date) =>
                         (~IsNone(t.date) /\ Get(t.date) <= Get(q.end_date)) }
            rest == Cardinality(matching) - q.skip
        IN /\ \A i \in DOMAIN items : items[i] \in matching
           /\ \A i, j \in DOMAIN items : i /= j => items[i] /= items[j]
           /\ \A i, j \in DOMAIN items :
                i < j => Get(items[i].date) >= Get(items[j].date)
           /\ Len(items) = IF rest <= 0 THEN 0
                           ELSE IF rest < q.limit THEN rest ELSE q.limit
           /\ \A t \in matching :
                (\A i \in DOMAIN items : items[i] /= t) =>
                   \/ \A i \in DOMAIN items : DateRank(t) >= DateRank(items[i])
                   \/ \A i \in DOMAIN items : DateRank(t) <= DateRank(items[i])

(***************************************************************************)
(* C8.  Delete then fetch.  A delete answered 200 removes exactly the      *)
(* caller's row of that id: every other row is kept as it was, the         *)
(* caller's transaction_count drops by one and the totals by the row's     *)
(* amount.  In the step after it, the caller's get, update or delete of    *)
(* the same id is answered 404, a list does not hold the id and the stats  *)
(* count the rows that are left.                                           *)
(***************************************************************************)
C8_DeleteThenFetch ==
    [][ /\ (Ran /\ resp'.op = "delete" /\ resp'.status = 200) =>
             LET A == Get(Holder(resp'.token))
                 before == get_dashboard_stats(txs, A)
                 after == get_dashboard_stats(txs', A)
             IN /\ \E t \in txs :
                     /\ t.id = resp'.req.id /\ t.user_id = A
                     /\ txs' = txs \ {t}
                     /\ before.total_income + before.total_expenses
                          - (after.total_income + after.total_expenses)
                          = IF t.transaction_type \in {"income", "expense"}
                            THEN t.amount ELSE 0
                /\ after.transaction_count = before.transaction_count - 1
                /\ \A t \in txs' : t.id /= resp'.req.id
        /\ (/\ resp.op = "delete" /\ resp.status = 200
            /\ Ran /\ resp'.token = resp.token) =>
             /\ (resp'.op \in {"get", "update", "delete"}
                    /\ resp'.req.id = resp.req.id) => resp'.status = 404
             /\ (resp'.op = "list" /\ resp'.status = 200) =>
                    \A i \in DOMAIN resp'.body.items :
                        resp'.body.items[i].id /= resp.req.id
             /\ resp'.op = "stats" =>
                    resp'.body.stats.transaction_count =
                        Cardinality(Owned(txs, Get(Holder(resp.token))))
      ]_vars

\* a delete was answered 200, the row is gone and another row is left
C8_Witness ==
    /\ resp.op = "delete" /\ resp.status = 200
    /\ txs /= {}
    /\ \A t \in txs : t.id /= resp.req.id

(***************************************************************************)
(* C9.  Authentication gate.  A request to any endpoint but signup and     *)
(* login whose token decodes to no identity, or to the email of no stored  *)
(* user, is answered 401 with no data and changes no row.  A request whose *)
(* token resolves to a user is not answered 401, creates, changes and      *)
(* removes rows of that user only and is answered with that user's rows    *)
(* or account only.                                                        *)
(***************************************************************************)
C9_AuthenticationGate ==
    [][ resp'.op /= "none" =>
          LET H == Holder(resp'.token) IN
          /\ users' = users
          /\ IsNone(H) =>
               /\ resp'.status = 401
               /\ resp'.body = [detail |-> "Could not validate credentials"]
               /\ txs' = txs
          /\ ~IsNone(H) =>
               /\ resp'.status /= 401
               /\ \A t \in (txs \ txs') \cup (txs' \ txs) : t.user_id = Get(H)
               /\ (resp'.op \in {"create", "get", "update"} /\ resp'.status = 200)
                     => resp'.body.row.user_id = Get(H)
               /\ (resp'.op = "list" /\ resp'.status = 200)
                     => \A i \in DOMAIN resp'.body.items :
                            resp'.body.items[i].user_id = Get(H)
               /\ resp'.op = "me" => resp'.body.user.id = Get(H)
      ]_vars

\* a delete with a well-signed token of an email that no user has was refused
C9_Witness ==
    /\ resp.op = "delete" /\ resp.status = 401
    /\ resp.token.signed /\ ~resp.token.expired
    /\ \A u \in users : u.email /= resp.token.sub
    /\ txs /= {}

(***************************************************************************)
(* C10.  Concurrent signup as claimed: there is never more than one user   *)
(* of an email, and every signup request is answered either with the user  *)
(* it created or with the 400 of a duplicate signup.                       *)
(***************************************************************************)
C10_ConcurrentSignup ==
    /\ \A u, v \in users : u.email = v.email => u = v
    /\ resp.op = "signup" => resp.status \in {200, 400}

=============================================================================
